---- MODULE Spec2Model ----
(***************************************************************************)
(* Model of protected-smart-pointer/src/lib.rs: one Protected<T> cell      *)
(* (ProtectedBox { value, access_keys } behind an RwLock), its owner       *)
(* handle, the user handles the owner mints, the guards they obtain, and   *)
(* the threads that call the handles' operations.                          *)
(*                                                                         *)
(* An operation is a call step (the thread enters the function and stands  *)
(* at its lock acquisition) followed by the step in which the lock is      *)
(* granted and the function's critical section runs.  User read()/write()  *)
(* take the lock twice: once inside has_access(), once for the guard.      *)
(***************************************************************************)
EXTENDS Integers, FiniteSets, Sequences

\* ------------------------------------------------------------------ bounds
NThreads == 2
MaxHandles == 2
MaxId == 1
MaxVal == 1
MaxHeld == 1

Threads == 1..NThreads
Owner == 0
Users == 1..MaxHandles
Handles == {Owner} \cup Users
Ids == 0..MaxId
\* The value the tests pass to Protected::new, and the values written after it.
InitValue == 42
Values == InitValue..(InitValue + MaxVal)

VARIABLES
    value,        \* ProtectedBox.value
    access_keys,  \* ProtectedBox.access_keys
    hstate,       \* per handle: "free" | "alive" | "dropping" | "dropped"
    access_key,   \* per user handle: Protected.access_key (Some(id))
    op,           \* per thread: the operation it is in, or returned from last
    pc,           \* per thread: "idle" | "has_access" | "lock" | "panicked"
    opH,          \* per thread: the handle the operation is called on
    opId,         \* per thread: the id argument of create_user / remove_user
    res,          \* per thread: what the last operation returned
    held,         \* per thread: the guards it holds, each [kind, h]
    stored,       \* history: the value last stored, by new() or through a write guard
    revoked,      \* history, per user handle, since its creation: "no", or
                  \* "remove_user" (a remove_user of its id returned, and no
                  \* create_user of that id since), "reissued" (the same, and a
                  \* create_user of that id has returned since), "owner_drop"
                  \* (the owner was dropped before any remove_user of its id)
    since,        \* history, per id: a user handle with the id was dropped or a
                  \* remove_user(id) returned, and no create_user(id) returned since
    ctx,          \* history, per thread: facts about the user read()/write() call in flight
    poisoned,     \* the RwLock's poison flag
    queue         \* the RwLock's granting policy: fifo or not, and under fifo
                  \* the threads waiting for the lock, in order of arrival

vars == <<value, access_keys, hstate, access_key, op, pc, opH, opId, res, held,
          stored, revoked, since, ctx, poisoned, queue>>

\* ------------------------------------------------------------ the RwLock
AllGuards == {<<t, i>> : t \in Threads, i \in 1..MaxHeld + 1}

HeldGuards == {g \in AllGuards : g[2] <= Len(held[g[1]])}

WriteHeld == \E g \in HeldGuards : held[g[1]][g[2]].kind = "write"

\* RwLock::read() is granted while no write guard is held.
LockReadFree_ignoresWriter == TRUE

LockReadFree == ~WriteHeld

\* RwLock::write() is granted while no guard at all is held.
LockWriteFree_ignoresReaders == ~WriteHeld

LockWriteFree == HeldGuards = {}

\* std's RwLock promises no granting policy.  With queue.fifo the lock is
\* granted in order of arrival; without, to any acquisition it is free for.
Enqueue(q, t) == IF q.fifo THEN [q EXCEPT !.order = Append(@, t)] ELSE q

Dequeue(q, t) == IF q.fifo THEN [q EXCEPT !.order = Tail(@)] ELSE q

Turn(t) == queue.fifo => (queue.order # <<>> /\ Head(queue.order) = t)

\* Guards borrow the handle they were obtained from.
Borrowed(h) == \E g \in HeldGuards : held[g[1]][g[2]].h = h

InFlight(h) == \E t \in Threads : pc[t] \in {"has_access", "lock"} /\ opH[t] = h

\* ------------------------------------------------- access_keys operations
\* HashSet::insert: the set afterwards, and whether the value was newly inserted.
Insert(keys, id) == keys \cup {id}

Inserted_always(keys, id) == TRUE

Inserted(keys, id) == id \notin keys

\* HashSet::remove in remove_user.
Remove_nothing(keys, id) == keys

Remove(keys, id) == keys \ {id}

\* has_access: access_keys.contains(&self.access_key.unwrap())
Contains_always(keys, key) == TRUE

Contains(keys, key) == key \in keys

\* Drop: a user resigns its own key, the owner clears all keys.
DropKeys_keepsAll(keys, h, key) == IF h # Owner THEN keys \ {key} ELSE keys

DropKeys_userKeeps(keys, h, key) == IF h # Owner THEN keys ELSE {}

DropKeys(keys, h, key) == IF h # Owner THEN keys \ {key} ELSE {}

\* DerefMut for ProtectedWriteGuard: the store goes to ProtectedBox.value.
StoreThrough_lost(old, v) == old

StoreThrough(old, v) == v

\* Deref for both guards: &self.0.value
Deref(g) == value

\* ----------------------------------------------------------------- history
NoCtx == [regAll |-> FALSE, remAll |-> FALSE, ownerGone |-> FALSE, wasRevoked |-> FALSE]

UserOps == {"user_read", "user_write"}

\* The call-in-flight facts of the other threads, after a step that leaves the
\* registry as keys2 and the handles' history as revoked2.
Track(keys2, revoked2) ==
    [u \in Threads |->
        IF pc[u] # "idle" /\ op[u] \in UserOps
        THEN [ctx[u] EXCEPT !.regAll = @ /\ access_key[opH[u]] \in keys2,
                            !.remAll = @ /\ revoked2[opH[u]] = "remove_user"]
        ELSE ctx[u]]

FreeSlots == {h \in Users : hstate[h] = "free"}

MinOf(S) == CHOOSE x \in S : \A y \in S : x <= y

\* -------------------------------------------------------------------- Init
\* The state after Protected::new(InitValue): empty access_keys, only the owner.
InitCell ==
    /\ value = InitValue
    /\ stored = InitValue
    /\ access_keys = {}
    /\ hstate = [h \in Handles |-> IF h = Owner THEN "alive" ELSE "free"]
    /\ access_key = [h \in Users |-> 0]
    /\ op = [t \in Threads |-> "none"]
    /\ pc = [t \in Threads |-> "idle"]
    /\ opH = [t \in Threads |-> Owner]
    /\ opId = [t \in Threads |-> 0]
    /\ res = [t \in Threads |-> "none"]
    /\ held = [t \in Threads |-> <<>>]
    /\ revoked = [h \in Users |-> "no"]
    /\ since = [i \in Ids |-> FALSE]
    /\ ctx = [t \in Threads |-> NoCtx]
    /\ poisoned = FALSE

Init == InitCell /\ queue = [fifo |-> FALSE, order |-> <<>>]

\* ------------------------------------------------------------- call steps
\* A thread enters an operation of a live handle h and stands at its first
\* lock acquisition.
Enter(t, name, h, id, at) ==
    /\ pc[t] = "idle"
    /\ hstate[h] = "alive"
    /\ op' = [op EXCEPT ![t] = name]
    /\ pc' = [pc EXCEPT ![t] = at]
    /\ opH' = [opH EXCEPT ![t] = h]
    /\ opId' = [opId EXCEPT ![t] = id]
    /\ res' = [res EXCEPT ![t] = "none"]
    /\ queue' = Enqueue(queue, t)

\* The operation returns r: the thread is idle again and its borrow of the
\* handle ends.
Return(t, r) ==
    /\ pc' = [pc EXCEPT ![t] = "idle"]
    /\ res' = [res EXCEPT ![t] = r]
    /\ opH' = [opH EXCEPT ![t] = Owner]
    /\ opId' = opId

\* Thread t holds a write guard.  A call that would yield one more guard is
\* made with fewer than MaxHeld guards in hand; a call that cannot be granted
\* while the caller's own guard is held (any write acquisition, and any
\* acquisition under the caller's write guard) is made with any number.
HoldsWrite(t) == \E i \in 1..Len(held[t]) : held[t][i].kind = "write"

CallCreateUser(t, id) ==
    /\ Enter(t, "create_user", Owner, id, "lock")
    /\ ctx' = [ctx EXCEPT ![t] = NoCtx]
    /\ UNCHANGED <<value, access_keys, hstate, access_key, held, stored, revoked, since, poisoned>>

CallRemoveUser(t, id) ==
    /\ Enter(t, "remove_user", Owner, id, "lock")
    /\ ctx' = [ctx EXCEPT ![t] = NoCtx]
    /\ UNCHANGED <<value, access_keys, hstate, access_key, held, stored, revoked, since, poisoned>>

CallOwnerRead(t) ==
    /\ Len(held[t]) < MaxHeld \/ HoldsWrite(t)
    /\ Enter(t, "owner_read", Owner, 0, "lock")
    /\ ctx' = [ctx EXCEPT ![t] = NoCtx]
    /\ UNCHANGED <<value, access_keys, hstate, access_key, held, stored, revoked, since, poisoned>>

CallOwnerWrite(t) ==
    /\ Enter(t, "owner_write", Owner, 0, "lock")
    /\ ctx' = [ctx EXCEPT ![t] = NoCtx]
    /\ UNCHANGED <<value, access_keys, hstate, access_key, held, stored, revoked, since, poisoned>>

\* User read()/write() start with has_access().
CallUser(t, name, h) ==
    /\ h \in Users
    /\ Len(held[t]) < MaxHeld \/ HoldsWrite(t) \/ name = "user_write"
    /\ Enter(t, name, h, 0, "has_access")
    /\ ctx' = [ctx EXCEPT ![t] =
                 [regAll |-> access_key[h] \in access_keys,
                  remAll |-> revoked[h] = "remove_user",
                  ownerGone |-> hstate[Owner] = "dropped",
                  wasRevoked |-> revoked[h] # "no"]]
    /\ UNCHANGED <<value, access_keys, hstate, access_key, held, stored, revoked, since, poisoned>>

CallUserRead(t, h) == CallUser(t, "user_read", h)

CallUserWrite(t, h) == CallUser(t, "user_write", h)

\* drop(handle): the handle is moved into drop, so nothing borrows it.
CallDrop(t, h) ==
    /\ ~Borrowed(h)
    /\ ~InFlight(h)
    /\ Enter(t, "drop", h, 0, "lock")
    /\ hstate' = [hstate EXCEPT ![h] = "dropping"]
    /\ ctx' = [ctx EXCEPT ![t] = NoCtx]
    /\ UNCHANGED <<value, access_keys, access_key, held, stored, revoked, since, poisoned>>

\* ------------------------------------------------------- owner operations
\* create_user: under the write lock, insert id; Some(handle) if it was new.
CreateUser(t) ==
    /\ op[t] = "create_user" /\ pc[t] = "lock"
    /\ Turn(t)
    /\ queue' = Dequeue(queue, t)
    /\ ~poisoned
    /\ LockWriteFree
    /\ LET id == opId[t]
       IN  IF Inserted(access_keys, id)
           THEN /\ FreeSlots # {}
                /\ LET h == MinOf(FreeSlots)
                   IN  /\ access_keys' = Insert(access_keys, id)
                       /\ hstate' = [hstate EXCEPT ![h] = "alive"]
                       /\ access_key' = [access_key EXCEPT ![h] = id]
                       /\ Return(t, "some")
           ELSE /\ Return(t, "nohandle")
                /\ UNCHANGED <<access_keys, hstate, access_key>>
    /\ revoked' = [u \in Users |->
                     IF hstate[u] # "free" /\ access_key[u] = opId[t]
                                           /\ revoked[u] = "remove_user"
                     THEN "reissued" ELSE revoked[u]]
    /\ since' = [since EXCEPT ![opId[t]] = FALSE]
    /\ ctx' = Track(access_keys', revoked')
    /\ UNCHANGED <<value, op, held, stored, poisoned>>

\* remove_user: under the write lock, remove id.
RemoveUser(t) ==
    /\ op[t] = "remove_user" /\ pc[t] = "lock"
    /\ Turn(t)
    /\ queue' = Dequeue(queue, t)
    /\ ~poisoned
    /\ LockWriteFree
    /\ LET id == opId[t]
           keys2 == Remove(access_keys, id)
           revoked2 == [h \in Users |->
                          IF hstate[h] # "free" /\ access_key[h] = id
                          THEN "remove_user" ELSE revoked[h]]
       IN  /\ access_keys' = keys2
           /\ since' = [since EXCEPT ![id] = TRUE]
           /\ revoked' = revoked2
           /\ ctx' = Track(keys2, revoked2)
    /\ Return(t, "unit")
    /\ UNCHANGED <<value, hstate, access_key, op, held, stored, poisoned>>

\* Owner read(): the read lock, unconditionally.
OwnerRead_checksRegistry(t) ==
    /\ op[t] = "owner_read" /\ pc[t] = "lock"
    /\ Turn(t)
    /\ queue' = Dequeue(queue, t)
    /\ ~poisoned
    /\ LockReadFree
    /\ IF access_keys # {}
       THEN /\ held' = [held EXCEPT ![t] = Append(@, [kind |-> "read", h |-> Owner])]
            /\ Return(t, "guard")
       ELSE /\ Return(t, "denied")
            /\ UNCHANGED held
    /\ UNCHANGED <<value, access_keys, hstate, access_key, op, stored, revoked, since, ctx, poisoned>>

OwnerRead(t) ==
    /\ op[t] = "owner_read" /\ pc[t] = "lock"
    /\ Turn(t)
    /\ queue' = Dequeue(queue, t)
    /\ ~poisoned
    /\ LockReadFree
    /\ held' = [held EXCEPT ![t] = Append(@, [kind |-> "read", h |-> Owner])]
    /\ Return(t, "guard")
    /\ UNCHANGED <<value, access_keys, hstate, access_key, op, stored, revoked, since, ctx, poisoned>>

\* Owner write(): the write lock, unconditionally.
OwnerWrite_ignoresPoison(t) ==
    /\ op[t] = "owner_write" /\ pc[t] = "lock"
    /\ Turn(t)
    /\ queue' = Dequeue(queue, t)
    /\ LockWriteFree
    /\ held' = [held EXCEPT ![t] = Append(@, [kind |-> "write", h |-> Owner])]
    /\ Return(t, "guard")
    /\ UNCHANGED <<value, access_keys, hstate, access_key, op, stored, revoked, since, ctx, poisoned>>

OwnerWrite(t) ==
    /\ op[t] = "owner_write" /\ pc[t] = "lock"
    /\ Turn(t)
    /\ queue' = Dequeue(queue, t)
    /\ ~poisoned
    /\ LockWriteFree
    /\ held' = [held EXCEPT ![t] = Append(@, [kind |-> "write", h |-> Owner])]
    /\ Return(t, "guard")
    /\ UNCHANGED <<value, access_keys, hstate, access_key, op, stored, revoked, since, ctx, poisoned>>

\* -------------------------------------------------------- user operations
\* has_access(): under a read lock of its own, released on return.  Without
\* access the caller returns Err(AccessDeniedError) at once; with access it
\* goes on to lock for the guard.
HasAccess_keepsGuard(t) ==
    /\ op[t] \in UserOps /\ pc[t] = "has_access"
    /\ Turn(t)
    /\ ~poisoned
    /\ LockReadFree
    /\ IF Contains(access_keys, access_key[opH[t]])
       THEN /\ pc' = [pc EXCEPT ![t] = "lock"]
            /\ queue' = Enqueue(Dequeue(queue, t), t)
            /\ held' = [held EXCEPT ![t] = Append(@, [kind |-> "read", h |-> opH[t]])]
            /\ UNCHANGED <<res, opH, opId>>
       ELSE /\ Return(t, "denied")
            /\ queue' = Dequeue(queue, t)
            /\ UNCHANGED held
    /\ UNCHANGED <<value, access_keys, hstate, access_key, op,
                   stored, revoked, since, ctx, poisoned>>

HasAccess(t) ==
    /\ op[t] \in UserOps /\ pc[t] = "has_access"
    /\ Turn(t)
    /\ ~poisoned
    /\ LockReadFree
    /\ IF Contains(access_keys, access_key[opH[t]])
       THEN /\ pc' = [pc EXCEPT ![t] = "lock"]
            /\ queue' = Enqueue(Dequeue(queue, t), t)
            /\ UNCHANGED <<res, opH, opId>>
       ELSE /\ Return(t, "denied")
            /\ queue' = Dequeue(queue, t)
    /\ UNCHANGED <<value, access_keys, hstate, access_key, op, held,
                   stored, revoked, since, ctx, poisoned>>

\* User read(): Ok(ProtectedReadGuard(self.inner.read().unwrap()))
UserRead(t) ==
    /\ op[t] = "user_read" /\ pc[t] = "lock"
    /\ Turn(t)
    /\ queue' = Dequeue(queue, t)
    /\ ~poisoned
    /\ LockReadFree
    /\ held' = [held EXCEPT ![t] = Append(@, [kind |-> "read", h |-> opH[t]])]
    /\ Return(t, "guard")
    /\ UNCHANGED <<value, access_keys, hstate, access_key, op, stored, revoked, since, ctx, poisoned>>

\* User write(): Ok(ProtectedWriteGuard(self.inner.write().unwrap()))
UserWrite(t) ==
    /\ op[t] = "user_write" /\ pc[t] = "lock"
    /\ Turn(t)
    /\ queue' = Dequeue(queue, t)
    /\ ~poisoned
    /\ LockWriteFree
    /\ held' = [held EXCEPT ![t] = Append(@, [kind |-> "write", h |-> opH[t]])]
    /\ Return(t, "guard")
    /\ UNCHANGED <<value, access_keys, hstate, access_key, op, stored, revoked, since, ctx, poisoned>>

\* -------------------------------------------------------------------- Drop
\* Drop for Protected<T, A>: under the write lock, a user removes its own
\* access key and the owner clears access_keys.
Drop(t) ==
    /\ op[t] = "drop" /\ pc[t] = "lock"
    /\ Turn(t)
    /\ queue' = Dequeue(queue, t)
    /\ ~poisoned
    /\ LockWriteFree
    /\ LET h == opH[t]
           key == IF h = Owner THEN 0 ELSE access_key[h]
           keys2 == DropKeys(access_keys, h, key)
       IN  /\ access_keys' = keys2
           /\ since' = IF h = Owner THEN since ELSE [since EXCEPT ![key] = TRUE]
           /\ IF h = Owner
              THEN /\ hstate' = [hstate EXCEPT ![h] = "dropped"]
                   /\ revoked' = [u \in Users |->
                                    IF hstate[u] # "free" /\ revoked[u] = "no"
                                    THEN "owner_drop" ELSE revoked[u]]
                   /\ UNCHANGED access_key
              ELSE /\ hstate' = [hstate EXCEPT ![h] = "free"]
                   /\ access_key' = [access_key EXCEPT ![h] = 0]
                   /\ revoked' = [revoked EXCEPT ![h] = "no"]
    /\ ctx' = Track(access_keys', revoked')
    /\ Return(t, "unit")
    /\ UNCHANGED <<value, op, held, stored, poisoned>>

\* ------------------------------------------------------------------ guards
\* A guard goes out of scope: its hold on the lock is released.
ReleaseGuard(t, i) ==
    /\ pc[t] = "idle"
    /\ i \in 1..Len(held[t])
    /\ held' = [held EXCEPT ![t] = SubSeq(@, 1, i - 1) \o SubSeq(@, i + 1, Len(@))]
    /\ UNCHANGED <<value, access_keys, hstate, access_key, op, pc, opH, opId, res,
                   stored, revoked, since, ctx, poisoned, queue>>

\* *guard = v through a write guard (DerefMut).
WriteValue_throughAnyGuard(t, i, v) ==
    /\ pc[t] = "idle"
    /\ i \in 1..Len(held[t])
    /\ value' = StoreThrough(value, v)
    /\ stored' = v
    /\ UNCHANGED <<access_keys, hstate, access_key, op, pc, opH, opId, res, held,
                   revoked, since, ctx, poisoned, queue>>

WriteValue(t, i, v) ==
    /\ pc[t] = "idle"
    /\ i \in 1..Len(held[t])
    /\ held[t][i].kind = "write"
    /\ value' = StoreThrough(value, v)
    /\ stored' = v
    /\ UNCHANGED <<access_keys, hstate, access_key, op, pc, opH, opId, res, held,
                   revoked, since, ctx, poisoned, queue>>

\* -------------------------------------------------------------------- Next
Next ==
    \/ \E t \in Threads, id \in Ids : CallCreateUser(t, id)
    \/ \E t \in Threads : CreateUser(t)
    \/ \E t \in Threads, id \in Ids : CallRemoveUser(t, id)
    \/ \E t \in Threads : RemoveUser(t)
    \/ \E t \in Threads : CallOwnerRead(t)
    \/ \E t \in Threads : OwnerRead(t)
    \/ \E t \in Threads : CallOwnerWrite(t)
    \/ \E t \in Threads : OwnerWrite(t)
    \/ \E t \in Threads, h \in Users : CallUserRead(t, h)
    \/ \E t \in Threads, h \in Users : CallUserWrite(t, h)
    \/ \E t \in Threads : HasAccess(t)
    \/ \E t \in Threads : UserRead(t)
    \/ \E t \in Threads : UserWrite(t)
    \/ \E t \in Threads, h \in Handles : CallDrop(t, h)
    \/ \E t \in Threads : Drop(t)
    \/ \E t \in Threads, i \in 1..MaxHeld : ReleaseGuard(t, i)
    \/ \E t \in Threads, i \in 1..MaxHeld, v \in Values : WriteValue(t, i, v)

Spec == Init /\ [][Next]_vars

\* ------------------------------------------- the disciplined, fair system
\* A thread that starts an operation holds no guard on the cell.
Disciplined(t) == held[t] = <<>>

\* create_user is called only while a handle slot is left for it.
SlotLeft ==
    Cardinality(FreeSlots) >
        Cardinality({u \in Threads : op[u] = "create_user" /\ pc[u] = "lock"})

\* The lock's operations under that discipline.  Stores through a held write
\* guard take no step at the lock and are not part of this system.
DisciplinedNext ==
    \/ \E t \in Threads, id \in Ids : Disciplined(t) /\ SlotLeft /\ CallCreateUser(t, id)
    \/ \E t \in Threads : CreateUser(t)
    \/ \E t \in Threads, id \in Ids : Disciplined(t) /\ CallRemoveUser(t, id)
    \/ \E t \in Threads : RemoveUser(t)
    \/ \E t \in Threads : Disciplined(t) /\ CallOwnerRead(t)
    \/ \E t \in Threads : OwnerRead(t)
    \/ \E t \in Threads : Disciplined(t) /\ CallOwnerWrite(t)
    \/ \E t \in Threads : OwnerWrite(t)
    \/ \E t \in Threads, h \in Users : Disciplined(t) /\ CallUserRead(t, h)
    \/ \E t \in Threads, h \in Users : Disciplined(t) /\ CallUserWrite(t, h)
    \/ \E t \in Threads : HasAccess(t)
    \/ \E t \in Threads : UserRead(t)
    \/ \E t \in Threads : UserWrite(t)
    \/ \E t \in Threads, h \in Handles : Disciplined(t) /\ CallDrop(t, h)
    \/ \E t \in Threads : Drop(t)
    \/ \E t \in Threads, i \in 1..MaxHeld : ReleaseGuard(t, i)

\* The lock is granted to thread t's pending acquisition.
Grant(t) ==
    \/ CreateUser(t) \/ RemoveUser(t) \/ OwnerRead(t) \/ OwnerWrite(t)
    \/ HasAccess(t) \/ UserRead(t) \/ UserWrite(t) \/ Drop(t)

\* Thread t lets go of a guard.
Release(t) == \E i \in 1..MaxHeld : ReleaseGuard(t, i)

\* Fair lock granting: the lock is granted in order of arrival, an
\* acquisition that can be granted is granted, and every guard is released.
Fairness == \A t \in Threads : WF_vars(Grant(t)) /\ WF_vars(Release(t))

FairInit == InitCell /\ queue = [fifo |-> TRUE, order |-> <<>>]

FairSpec == FairInit /\ [][DisciplinedNext]_vars /\ Fairness

\* ------------------------------------------------- the system with panics
\* The thread holding a write guard panics: unwinding drops the guard, which
\* poisons the lock and releases it; the thread is gone.
Panic(t) ==
    /\ pc[t] = "idle"
    /\ HoldsWrite(t)
    /\ poisoned' = TRUE
    /\ held' = [held EXCEPT ![t] = <<>>]
    /\ pc' = [pc EXCEPT ![t] = "panicked"]
    /\ UNCHANGED <<value, access_keys, hstate, access_key, op, opH, opId, res,
                   stored, revoked, since, ctx, queue>>

ReadLockOps == {"owner_read", "user_read"}

\* The acquisition thread t stands at is granted on the poisoned lock: read()
\* or write() returns Err(PoisonError), .unwrap() panics, and the critical
\* section does not run.  Unwinding drops the guards the thread holds and, in
\* a drop, the handle.
PoisonPanic(t) ==
    /\ pc[t] \in {"has_access", "lock"}
    /\ poisoned
    /\ Turn(t)
    /\ queue' = Dequeue(queue, t)
    /\ IF pc[t] = "has_access" \/ op[t] \in ReadLockOps
       THEN LockReadFree
       ELSE LockWriteFree
    /\ pc' = [pc EXCEPT ![t] = "panicked"]
    /\ res' = [res EXCEPT ![t] = "panic"]
    /\ held' = [held EXCEPT ![t] = <<>>]
    /\ hstate' = IF op[t] = "drop" THEN [hstate EXCEPT ![opH[t]] = "dropped"] ELSE hstate
    /\ UNCHANGED <<value, access_keys, access_key, op, opH, opId,
                   stored, revoked, since, ctx, poisoned>>

PoisonNext ==
    \/ Next
    \/ \E t \in Threads : Panic(t)
    \/ \E t \in Threads : PoisonPanic(t)

PoisonSpec == Init /\ [][PoisonNext]_vars

\* ================================================================== claims
UserReturned(t) == op[t] \in UserOps /\ pc[t] = "idle"

GuardOf(g) == held[g[1]][g[2]]

\* C1: whenever a write guard is held, it is the only guard held on the cell;
\* nothing else limits the guards held, so read guards may be held together.
C1_WriteGuardExclusive ==
    \A g \in HeldGuards : GuardOf(g).kind = "write" => HeldGuards = {g}

\* A write guard is held while another thread stands at the lock for a guard.
C1_Witness ==
    \E t, u \in Threads :
        /\ t # u
        /\ Len(held[t]) = 1 /\ held[t][1].kind = "write"
        /\ pc[u] = "lock" /\ op[u] \in {"owner_read", "user_read", "user_write"}

\* C2: a user read()/write() returns a guard when the handle's id was in the
\* registry for the whole call, and AccessDeniedError when, for the whole call,
\* a remove_user(id) had returned with no create_user(id) completed since.
C2_UserAccessFollowsRegistry ==
    \A t \in Threads :
        UserReturned(t) =>
            /\ ctx[t].regAll => res[t] = "guard"
            /\ ctx[t].remAll => res[t] = "denied"

\* One thread was denied after a remove_user of its handle's id while the
\* other obtained a guard through a registered handle.
C2_Witness ==
    \E t, u \in Threads :
        /\ UserReturned(t) /\ ctx[t].remAll /\ res[t] = "denied"
        /\ UserReturned(u) /\ ctx[u].regAll /\ res[u] = "guard"

\* C3: once the owner is dropped the registry is empty (from the very state in
\* which the drop completes, and ever after), and every user read()/write()
\* started after the drop returns AccessDeniedError.
C3_OwnerDropRevokesAll ==
    /\ hstate[Owner] = "dropped" => access_keys = {}
    /\ \A t \in Threads :
           (UserReturned(t) /\ ctx[t].ownerGone) => res[t] = "denied"

\* The owner is dropped, a handle that remove_user never named is alive, and a
\* call on a handle started after the drop has returned AccessDeniedError.
C3_Witness ==
    /\ hstate[Owner] = "dropped"
    /\ \E h \in Users : hstate[h] = "alive" /\ revoked[h] = "owner_drop"
    /\ \E t \in Threads : UserReturned(t) /\ ctx[t].ownerGone /\ res[t] = "denied"

CreateUserReturns(t) == op[t] = "create_user" /\ pc[t] = "lock" /\ pc'[t] = "idle"

\* C4: create_user(id) with id absent returns Some(handle), the handle carries
\* id, and the registry gains exactly id; with id present it returns None and
\* leaves the registry, the handles and the value as they were.
C4_CreateUser ==
    [][\A t \in Threads :
          CreateUserReturns(t) =>
              IF opId[t] \notin access_keys
              THEN /\ res'[t] = "some"
                   /\ access_keys' = access_keys \cup {opId[t]}
                   /\ \E h \in Users : /\ hstate[h] = "free" /\ hstate'[h] = "alive"
                                       /\ access_key'[h] = opId[t]
                   /\ value' = value
              ELSE /\ res'[t] = "nohandle"
                   /\ access_keys' = access_keys
                   /\ hstate' = hstate /\ access_key' = access_key
                   /\ value' = value]_vars

\* One create_user returned None and the other Some, for the same id.
C4_Witness ==
    \E t, u \in Threads :
        /\ op[t] = "create_user" /\ pc[t] = "idle" /\ res[t] = "nohandle"
        /\ op[u] = "create_user" /\ pc[u] = "idle" /\ res[u] = "some"
        /\ opId[t] = opId[u] /\ opId[t] \in access_keys

\* C5: a read()/write() started on a handle instance after the owner revoked
\* it (remove_user of its id, or the owner's drop) returns AccessDeniedError.
C5_RevokedStaysDenied ==
    \A t \in Threads :
        (UserReturned(t) /\ ctx[t].wasRevoked) => res[t] = "denied"

UserDropReturns(t) ==
    op[t] = "drop" /\ pc[t] = "lock" /\ opH[t] # Owner /\ pc'[t] = "idle"

\* C6: the drop of a user handle leaves the value and the has_access() outcome
\* of every other live user handle as they were.
C6_UserDropFrame ==
    [][\A t \in Threads :
          UserDropReturns(t) =>
              /\ value' = value
              /\ \A g \in Users \ {opH[t]} :
                     hstate[g] = "alive" =>
                         (Contains(access_keys', access_key[g])
                              <=> Contains(access_keys, access_key[g]))]_vars

Quiescent == \A t \in Threads : pc[t] = "idle"

LiveUnremovedIds ==
    {access_key[h] : h \in {u \in Users : /\ hstate[u] = "alive"
                                           /\ revoked[u] \notin {"remove_user", "reissued"}}}

\* C7: with no operation mid-execution, the registry is exactly the set of ids
\* of the user handles that are alive and that remove_user has not named since
\* their creation.  Stated for the owner's lifetime: after the owner's drop the
\* registry is empty (C3) whatever handles are alive.
C7_RegistryIsLiveUnremoved ==
    (Quiescent /\ hstate[Owner] = "alive") => access_keys = LiveUnremovedIds

UserGetsResult(t) == op[t] \in UserOps /\ pc[t] # "idle" /\ pc'[t] = "idle"

\* C8: a user read()/write() that is in flight, its guard not yet obtained,
\* when the owner's revocation of its handle completes, returns
\* AccessDeniedError.
C8_RevocationSeenInFlight ==
    [][\A t \in Threads :
          (UserGetsResult(t) /\ revoked[opH[t]] # "no" /\ ~ctx[t].wasRevoked)
              => res'[t] = "denied"]_vars

\* C9: every guard held, through the owner or a user handle, dereferences to
\* the value last stored through a write guard of any handle, or to the value
\* passed to new() if none was.
C9_GuardsSeeLastStore ==
    \A g \in HeldGuards : Deref(GuardOf(g)) = stored

\* A read guard obtained through a user handle reads a value that is not the
\* one passed to new(), after another thread's owner write() has returned its
\* guard and the guard was released.
C9_Witness ==
    \E g \in HeldGuards, u \in Threads :
        /\ GuardOf(g).kind = "read"
        /\ GuardOf(g).h \in Users
        /\ u # g[1] /\ op[u] = "owner_write" /\ pc[u] = "idle" /\ held[u] = <<>>
        /\ Deref(GuardOf(g)) # InitValue
        /\ Deref(GuardOf(g)) = stored

\* C10: the create_user(id) that follows the drop of a user handle with that
\* id, or a remove_user(id), with no create_user(id) in between, returns
\* Some(handle).
C10_IdReusable ==
    [][\A t \in Threads :
          (CreateUserReturns(t) /\ since[opId[t]])
              => res'[t] = "some"]_vars

\* create_user returned Some for an id that a live, removed handle still carries.
C10_Witness ==
    \E t \in Threads, h, g \in Users :
        /\ op[t] = "create_user" /\ pc[t] = "idle" /\ res[t] = "some"
        /\ h # g /\ hstate[h] = "alive" /\ hstate[g] = "alive"
        /\ access_key[h] = opId[t] /\ access_key[g] = opId[t]
        /\ revoked[h] = "reissued" /\ revoked[g] = "no"
        /\ access_key[g] \in access_keys

Unremoved(h) == hstate[h] = "alive" /\ revoked[h] \notin {"remove_user", "reissued"}

\* C11: no two live user handles carry the same id.  Stated for the handles
\* that remove_user has not named since their creation: an id may be issued
\* again once remove_user has named its previous holder, so two live handles
\* of which one was removed are left out.
C11_LiveIdsDistinct ==
    \A h, g \in Users :
        (h # g /\ Unremoved(h) /\ Unremoved(g)) => access_key[h] # access_key[g]

OwnerOps == {"owner_read", "owner_write"}

\* C12: the owner's read() and write() return a guard and never
\* AccessDeniedError, and they return as soon as the lock can be granted,
\* whatever the registry holds.
C12_OwnerUnconditional ==
    \A t \in Threads :
        /\ (op[t] \in OwnerOps /\ pc[t] = "idle") => res[t] = "guard"
        /\ (op[t] = "owner_read" /\ pc[t] = "lock" /\ LockReadFree)
               => ENABLED OwnerRead(t)
        /\ (op[t] = "owner_write" /\ pc[t] = "lock" /\ LockWriteFree)
               => ENABLED OwnerWrite(t)

\* The owner's read() has returned a guard, still held, with the registry
\* empty again after an id was registered and freed.
C12_Witness ==
    \E t \in Threads, i \in Ids :
        /\ op[t] = "owner_read" /\ pc[t] = "idle" /\ res[t] = "guard"
        /\ held[t] = <<[kind |-> "read", h |-> Owner]>>
        /\ access_keys = {} /\ since[i]

RemoveUserReturns(t) == op[t] = "remove_user" /\ pc[t] = "lock" /\ pc'[t] = "idle"

\* C13: remove_user(id) leaves the registry without id and otherwise as it
\* was (unchanged when id was absent, so a second call in a row changes
\* nothing), and leaves the value and the handles unchanged.
C13_RemoveUser ==
    [][\A t \in Threads :
          RemoveUserReturns(t) =>
              /\ access_keys' = access_keys \ {opId[t]}
              /\ (opId[t] \notin access_keys => access_keys' = access_keys)
              /\ value' = value
              /\ hstate' = hstate /\ access_key' = access_key]_vars

\* Two remove_user calls for the same id have returned, and the other id is
\* still registered.
C13_Witness ==
    \E t, u \in Threads, i \in Ids :
        /\ t # u
        /\ op[t] = "remove_user" /\ pc[t] = "idle" /\ res[t] = "unit"
        /\ op[u] = "remove_user" /\ pc[u] = "idle" /\ res[u] = "unit"
        /\ opId[t] = opId[u] /\ since[opId[t]] /\ opId[t] \notin access_keys
        /\ i # opId[t] /\ i \in access_keys

RegistryOps == {"create_user", "remove_user", "drop"}

\* C14: the registry changes only in a step in which no guard is held on the
\* cell; while a guard is held, a create_user, remove_user or drop standing at
\* the lock stays there, and the guards held are taken away only by their own
\* holders' release.
C14_NoRevocationMidHold ==
    [][/\ access_keys' # access_keys => HeldGuards = {}
       /\ \A t \in Threads :
            /\ (op[t] \in RegistryOps /\ pc[t] = "lock" /\ HeldGuards # {})
                   => pc'[t] = "lock"
            /\ Len(held'[t]) < Len(held[t])
                   => (pc[t] = "idle" /\ \A u \in Threads \ {t} : held'[u] = held[u])]_vars

\* A guard is held through a registered user handle while remove_user of that
\* handle's id stands at the lock.
C14_Witness ==
    \E g \in HeldGuards, t \in Threads :
        /\ GuardOf(g).h \in Users
        /\ access_key[GuardOf(g).h] \in access_keys
        /\ t # g[1]
        /\ op[t] = "remove_user" /\ pc[t] = "lock"
        /\ opId[t] = access_key[GuardOf(g).h]

\* C15: whenever a guard is held through a user handle, that handle's id is in
\* the registry.
C15_UserGuardImpliesRegistered ==
    \A g \in HeldGuards :
        GuardOf(g).h \in Users => access_key[GuardOf(g).h] \in access_keys

\* C16: when no thread starts an operation while it holds a guard and guards
\* are released, an operation in progress never leaves the system without a
\* step some thread can take, and under fair lock granting every operation
\* returns.
C16_DeadlockFree ==
    /\ []((\E t \in Threads : pc[t] # "idle")
              => \E u \in Threads : ENABLED (Grant(u) \/ Release(u)))
    /\ \A t \in Threads : (pc[t] # "idle") ~> (pc[t] = "idle")

\* A user write() has passed has_access and waits for the write lock while
\* another thread holds a guard.
C16_Witness ==
    \E t, u \in Threads :
        /\ t # u
        /\ op[t] = "user_write" /\ pc[t] = "lock" /\ held[t] = <<>>
        /\ held[u] # <<>>
        /\ ~ENABLED Grant(t)

WriteLockOps == {"create_user", "remove_user", "owner_write", "user_write"}

C18_ValueOnlyThroughWriteGuard ==
    [][/\ value' # value =>
            /\ \E t \in Threads : pc[t] = "idle" /\ HoldsWrite(t)
            /\ held' = held /\ pc' = pc /\ res' = res
            /\ access_keys' = access_keys /\ hstate' = hstate
       /\ held' # held => access_keys' = access_keys]_vars

\* The value was changed through a write guard; since then a user call was
\* denied, a remove_user returned and a read guard is held, the value still
\* being the one stored.
C18_Witness ==
    \E t, u \in Threads :
        /\ t # u
        /\ value # InitValue /\ value = stored
        /\ op[t] \in UserOps /\ pc[t] = "idle" /\ res[t] = "denied"
        /\ held[u] # <<>> /\ ~HoldsWrite(u)
        /\ \E i \in Ids : since[i]

\* C19: once the lock is poisoned, an operation standing at a lock
\* acquisition can go on only by panicking: it returns no guard, no handle,
\* no None and no AccessDeniedError, no guard is held and no handle is
\* created; and the panic is what it can do as soon as the lock is free.
C19_PoisonedMeansPanic ==
    [][poisoned =>
          /\ HeldGuards = {} /\ held' = held
          /\ \A h \in Users : hstate'[h] = "alive" => hstate[h] = "alive"
          /\ access_keys' = access_keys /\ value' = value
          /\ \A t \in Threads :
                /\ (pc[t] \in {"has_access", "lock"} /\ pc'[t] # pc[t])
                       => (pc'[t] = "panicked" /\ res'[t] = "panic")
                /\ pc[t] \in {"has_access", "lock"} => ENABLED PoisonPanic(t)]_vars

\* After the holder of a write guard panicked, another thread's user read()
\* or write() has ended in a panic.
C19_Witness ==
    \E t, u \in Threads :
        /\ t # u
        /\ poisoned
        /\ pc[t] = "panicked" /\ res[t] = "guard"
        /\ pc[u] = "panicked" /\ res[u] = "panic" /\ op[u] \in UserOps

====
